---------------------------- MODULE Spec2Model ----------------------------
(* A model of rstfmt (src/rstfmt/rstfmt.py): the markup-aware word       *)
(* wrapper (split_words, wrap_text), the FormatContext transitions, and  *)
(* the node dispatcher (fmt and the Formatters rules).                   *)
(*                                                                       *)
(* Python strings are sequences of one-character strings; a fragment     *)
(* handed to wrap_text is [markup |-> BOOLEAN, text |-> string], markup  *)
(* TRUE for an inline_markup object and FALSE for a plain str.           *)
EXTENDS Integers, Sequences, FiniteSets, TLC

VARIABLES pc, width, items, raw_words, words, k, tokens, buf, n, lines,
          ctx, doc, output

vars == <<pc, width, items, raw_words, words, k, tokens, buf, n, lines,
          ctx, doc, output>>

(* ------------------------------ bounds ------------------------------ *)

\* Total size of a fragment sequence given to wrap_text: one per fragment
\* plus one per character of a plain fragment.
MaxSize == 5

\* Largest positive wrap width tried.
MaxWidth == 5

(* ----------------------------- constants ---------------------------- *)

\* An optional value (None or a value) is a sequence of length at most one.
None == <<>>

Some(x) == <<x>>

\* The value of an optional that is not None.
Val(o) == o[1]

\* string.whitespace; the vertical tab, which has no TLA+ escape, is "\\v".
space_chars == {" ", "\t", "\n", "\r", "\\v", "\f"}

pre_markup_break_chars ==
    space_chars \cup {"-", ":", "/", "'", "\"", "<", "(", "[", "{"}

post_markup_break_chars ==
    space_chars \cup {"-", ".", ",", ":", ";", "!", "?", "\\", "/", "'",
                      "\"", ")", "]", "}", ">"}

\* r"\ ": a backslash and a space.
EscapedSpace == <<"\\", " ">>

(* ------------------------- string helpers --------------------------- *)

RECURSIVE Concat(_)
\* "".join(seq) / itertools.chain.from_iterable(seq)
Concat(ss) == IF ss = <<>> THEN <<>> ELSE Head(ss) \o Concat(Tail(ss))

RECURSIVE JoinWith(_, _)
\* sep.join(ss)
JoinWith(sep, ss) ==
    IF ss = <<>> THEN <<>>
    ELSE IF Len(ss) = 1 THEN ss[1]
    ELSE ss[1] \o sep \o JoinWith(sep, Tail(ss))

RECURSIVE str_split_from(_, _, _)
str_split_from(s, cur, acc) ==
    IF s = <<>>
    THEN IF cur = <<>> THEN acc ELSE Append(acc, cur)
    ELSE IF Head(s) \in space_chars
         THEN str_split_from(Tail(s), <<>>,
                             IF cur = <<>> THEN acc ELSE Append(acc, cur))
         ELSE str_split_from(Tail(s), Append(cur, Head(s)), acc)

\* str.split(): the maximal runs of non-whitespace characters, in order.
str_split(s) == str_split_from(s, <<>>, <<>>)

(* --------------------------- split_words ---------------------------- *)

word_info(text, in_markup, start_space, end_space, start_punct, end_punct) ==
    [text |-> text, in_markup |-> in_markup,
     start_space |-> start_space, end_space |-> end_space,
     start_punct |-> start_punct, end_punct |-> end_punct]

inline_markup(text) == [markup |-> TRUE, text |-> text]

plain_str(text) == [markup |-> FALSE, text |-> text]

split_words(item) ==
    IF ~item.markup
    THEN IF item.text = <<>>
         THEN << word_info(<<>>, FALSE, FALSE, FALSE, FALSE, TRUE) >>
         ELSE LET s  == item.text
                  sp == str_split(s)
                  w0 == [j \in 1..Len(sp) |->
                            word_info(sp[j], FALSE, FALSE, FALSE, FALSE, FALSE)]
                  w1 == IF w0 = <<>>
                        THEN << word_info(<<>>, FALSE, TRUE, TRUE, TRUE, TRUE) >>
                        ELSE w0
                  w2 == IF s[1] \in space_chars
                        THEN [w1 EXCEPT ![1].start_space = TRUE] ELSE w1
                  w3 == IF s[Len(s)] \in space_chars
                        THEN [w2 EXCEPT ![Len(w2)].end_space = TRUE] ELSE w2
                  w4 == IF s[1] \in post_markup_break_chars
                        THEN [w3 EXCEPT ![1].start_punct = TRUE] ELSE w3
                  w5 == IF s[Len(s)] \in pre_markup_break_chars
                        THEN [w4 EXCEPT ![Len(w4)].end_punct = TRUE] ELSE w4
              IN  w5
    ELSE LET sp == str_split(item.text)
         IN  [j \in 1..Len(sp) |->
                 word_info(sp[j], TRUE, FALSE, FALSE, FALSE, FALSE)]

(* ---------------------------- wrap_text ----------------------------- *)

\* raw_words = list(chain(map(split_words, items)))
raw_words_of(its) == Concat([j \in 1..Len(its) |-> split_words(its[j])])

\* words = [word_info("", False, True, True, True, True)]
first_word == word_info(<<>>, FALSE, TRUE, TRUE, TRUE, TRUE)

\* The three branches of the merging loop's body, on last = words[-1].
joins_markup(last, word) ==
    ~last.in_markup /\ word.in_markup /\ ~last.end_space

follows_markup(last, word) ==
    ~joins_markup(last, word)
    /\ last.in_markup /\ ~word.in_markup /\ ~word.start_space

pre_join(last) == IF last.end_punct THEN <<>> ELSE EscapedSpace

\* post_join reading the wrong boundary flag.
post_join_end_flag(word) == IF word.end_punct THEN <<>> ELSE EscapedSpace

post_join(word) == IF word.start_punct THEN <<>> ELSE EscapedSpace

\* One iteration of "for word in raw_words".
merge_word(ws, word) ==
    LET last == ws[Len(ws)] IN
    IF joins_markup(last, word)
    THEN [ws EXCEPT ![Len(ws)] =
             word_info(last.text \o pre_join(last) \o word.text,
                       TRUE, FALSE, FALSE, FALSE, FALSE)]
    ELSE IF follows_markup(last, word)
    THEN [ws EXCEPT ![Len(ws)] =
             word_info(last.text \o post_join(word) \o word.text,
                       FALSE, FALSE, word.end_space, word.start_punct,
                       word.end_punct)]
    ELSE Append(ws, word)

RECURSIVE merge_words(_, _)
merge_words(ws, raw) ==
    IF raw = <<>> THEN ws ELSE merge_words(merge_word(ws, Head(raw)), Tail(raw))

RECURSIVE nonempty_texts(_)
\* words = (word.text for word in words if word.text)
nonempty_texts(ws) ==
    IF ws = <<>> THEN <<>>
    ELSE IF Head(ws).text = <<>> THEN nonempty_texts(Tail(ws))
    ELSE <<Head(ws).text>> \o nonempty_texts(Tail(ws))

\* " ".join(buf)
join_line(b) == JoinWith(<<" ">>, b)

\* next_len without the separating space.
next_len_no_separator(b, m, w) == m + Len(w)

\* n2 = n + bool(buf) + len(w)
next_len(b, m, w) == m + (IF b = <<>> THEN 0 ELSE 1) + Len(w)

must_flush(wd, b, m, w) == b # <<>> /\ next_len(b, m, w) > wd

\* One iteration of "for w in words" on the state (lines, buf, n).
pack_word(wd, st, w) ==
    IF must_flush(wd, st.buf, st.n, w)
    THEN [lines |-> Append(st.lines, join_line(st.buf)),
          buf |-> <<w>>, n |-> Len(w)]
    ELSE [lines |-> st.lines, buf |-> Append(st.buf, w),
          n |-> next_len(st.buf, st.n, w)]

RECURSIVE pack_words(_, _, _)
pack_words(wd, st, ws) ==
    IF ws = <<>> THEN st ELSE pack_words(wd, pack_word(wd, st, Head(ws)), Tail(ws))

\* The lines without the buffer left at the end of the loop.
final_lines_without_rest(st) == st.lines

\* if buf: yield " ".join(buf)
final_lines(st) ==
    IF st.buf # <<>> THEN Append(st.lines, join_line(st.buf)) ELSE st.lines

\* wrap_text(width, items) as the list of the lines it yields.
\* wd is an optional integer.
wrap_text(wd, its) ==
    LET toks == nonempty_texts(merge_words(<<first_word>>, raw_words_of(its)))
    IN  IF wd = None
        THEN << join_line(toks) >>
        ELSE final_lines(pack_words(Val(wd),
                                    [lines |-> <<>>, buf |-> <<>>, n |-> 0],
                                    toks))

(* ------------------- wrap_text, one step at a time ------------------ *)

PlainChars == {"a", " ", ".", "("}

MarkupTexts == { <<"*", "a", "*">>, <<"*", "a", " ", "a", "*">> }

PlainTexts(m) == UNION { [1..j -> PlainChars] : j \in 0..m }

FragmentsUpTo(size) ==
    IF size < 1 THEN {}
    ELSE { plain_str(t) : t \in PlainTexts(size - 1) }
         \cup { inline_markup(t) : t \in MarkupTexts }

FragmentSize(f) == IF f.markup THEN 1 ELSE 1 + Len(f.text)

RECURSIVE FragmentSeqs(_)
FragmentSeqs(size) ==
    {<<>>} \cup
    UNION { { <<f>> \o rest : rest \in FragmentSeqs(size - FragmentSize(f)) }
            : f \in FragmentsUpTo(size) }

Widths == {None} \cup { Some(w) : w \in 0..MaxWidth }

NoCtx == [section_depth |-> 0, width |-> None, bullet |-> None,
          colwidths |-> None]

InitWrap ==
    /\ pc = "split"
    /\ items \in FragmentSeqs(MaxSize)
    /\ width \in Widths
    /\ raw_words = <<>> /\ words = <<>> /\ k = 1
    /\ tokens = <<>> /\ buf = <<>> /\ n = 0 /\ lines = <<>>
    /\ ctx = NoCtx /\ doc = None /\ output = None

SplitWords ==
    /\ pc = "split"
    /\ raw_words' = raw_words_of(items)
    /\ words' = <<first_word>>
    /\ k' = 1
    /\ pc' = "merge"
    /\ UNCHANGED <<width, items, tokens, buf, n, lines, ctx, doc, output>>

JoinMarkup ==
    /\ pc = "merge"
    /\ k <= Len(raw_words)
    /\ joins_markup(words[Len(words)], raw_words[k])
    /\ words' = merge_word(words, raw_words[k])
    /\ k' = k + 1
    /\ UNCHANGED <<pc, width, items, raw_words, tokens, buf, n, lines,
                   ctx, doc, output>>

FollowMarkup ==
    /\ pc = "merge"
    /\ k <= Len(raw_words)
    /\ follows_markup(words[Len(words)], raw_words[k])
    /\ words' = merge_word(words, raw_words[k])
    /\ k' = k + 1
    /\ UNCHANGED <<pc, width, items, raw_words, tokens, buf, n, lines,
                   ctx, doc, output>>

AppendWord ==
    /\ pc = "merge"
    /\ k <= Len(raw_words)
    /\ ~joins_markup(words[Len(words)], raw_words[k])
    /\ ~follows_markup(words[Len(words)], raw_words[k])
    /\ words' = merge_word(words, raw_words[k])
    /\ k' = k + 1
    /\ UNCHANGED <<pc, width, items, raw_words, tokens, buf, n, lines,
                   ctx, doc, output>>

DropEmpty ==
    /\ pc = "merge"
    /\ k > Len(raw_words)
    /\ tokens' = nonempty_texts(words)
    /\ k' = 1
    /\ pc' = IF width = None THEN "join" ELSE "pack"
    /\ UNCHANGED <<width, items, raw_words, words, buf, n, lines,
                   ctx, doc, output>>

JoinAll ==
    /\ pc = "join"
    /\ lines' = << join_line(tokens) >>
    /\ pc' = "done"
    /\ UNCHANGED <<width, items, raw_words, words, k, tokens, buf, n,
                   ctx, doc, output>>

PackFlush ==
    /\ pc = "pack"
    /\ k <= Len(tokens)
    /\ must_flush(Val(width), buf, n, tokens[k])
    /\ LET st == pack_word(Val(width), [lines |-> lines, buf |-> buf, n |-> n],
                           tokens[k])
       IN  lines' = st.lines /\ buf' = st.buf /\ n' = st.n
    /\ k' = k + 1
    /\ UNCHANGED <<pc, width, items, raw_words, words, tokens, ctx, doc, output>>

PackAppend ==
    /\ pc = "pack"
    /\ k <= Len(tokens)
    /\ ~must_flush(Val(width), buf, n, tokens[k])
    /\ LET st == pack_word(Val(width), [lines |-> lines, buf |-> buf, n |-> n],
                           tokens[k])
       IN  lines' = st.lines /\ buf' = st.buf /\ n' = st.n
    /\ k' = k + 1
    /\ UNCHANGED <<pc, width, items, raw_words, words, tokens, ctx, doc, output>>

FinalFlush ==
    /\ pc = "pack"
    /\ k > Len(tokens)
    /\ lines' = final_lines([lines |-> lines, buf |-> buf, n |-> n])
    /\ pc' = "done"
    /\ UNCHANGED <<width, items, raw_words, words, k, tokens, buf, n,
                   ctx, doc, output>>

NextWrap ==
    \/ SplitWords
    \/ JoinMarkup
    \/ FollowMarkup
    \/ AppendWord
    \/ DropEmpty
    \/ JoinAll
    \/ PackFlush
    \/ PackAppend
    \/ FinalFlush

SpecWrap == InitWrap /\ [][NextWrap]_vars

\* The step machine computes what the wrap_text operator computes.
WrapAgrees == pc = "done" => lines = wrap_text(width, items)

(* ----------------------- claims about wrap_text --------------------- *)

IsToken(line) == \E t \in 1..Len(tokens) : tokens[t] = line

\* C2: at a positive width w every line wrap_text yields is at most w long,
\* unless the line is one single post-merge token that is itself longer
\* than w (so an overlong token is alone on its line and never split).
C2_WrapWidthBound ==
    (width # None /\ Val(width) >= 1) =>
        \A j \in 1..Len(lines) :
            \/ Len(lines[j]) <= Val(width)
            \/ IsToken(lines[j]) /\ Len(lines[j]) > Val(width)

\* A finished run at a positive width that yielded both a line of several
\* tokens and an overlong single token.
C2_Witness ==
    /\ pc = "done" /\ width # None /\ Val(width) >= 1
    /\ \E j \in 1..Len(lines) : ~IsToken(lines[j])
    /\ \E j \in 1..Len(lines) : Len(lines[j]) > Val(width)

HasSuffix(s, t) ==
    Len(t) <= Len(s) /\ SubSeq(s, Len(s) - Len(t) + 1, Len(s)) = t

RECURSIVE WordsBefore(_)
\* The number of raw words of fragments 1..j.
WordsBefore(j) ==
    IF j = 0 THEN 0 ELSE WordsBefore(j - 1) + Len(split_words(items[j]))

\* Fragment j holds a plain word: a plain fragment that is not all whitespace.
HasPlainWord(j) == ~items[j].markup /\ str_split(items[j].text) # <<>>

LastOf(s) == s[Len(s)]

\* The merging loop has just consumed the first word of fragment j.
JustMerged(j) == pc = "merge" /\ k - 1 = WordsBefore(j - 1) + 1

\* C10, plain before markup: the last word p of plain fragment j-1 and the
\* first word m of markup fragment j form one token p m, or p\ m, exactly
\* when no whitespace ends the plain fragment, with the escape exactly when
\* the fragment's last character is not in pre_markup_break_chars; with
\* whitespace between them m starts a token of its own.
PlainThenMarkupOk(j) ==
    LET f == items[j - 1].text
        p == LastOf(str_split(f))
        m == Head(str_split(items[j].text))
        last == LastOf(words)
    IN  IF LastOf(f) \in space_chars
        THEN last.text = m /\ Len(words) >= 2
             /\ HasSuffix(words[Len(words) - 1].text, p)
        ELSE IF LastOf(f) \in pre_markup_break_chars
        THEN HasSuffix(last.text, p \o m)
        ELSE HasSuffix(last.text, p \o EscapedSpace \o m)

\* C10, markup before plain: the mirror image, on the plain fragment's
\* first character and post_markup_break_chars.
MarkupThenPlainOk(j) ==
    LET f == items[j].text
        p == Head(str_split(f))
        m == LastOf(str_split(items[j - 1].text))
        last == LastOf(words)
    IN  IF Head(f) \in space_chars
        THEN last.text = p /\ Len(words) >= 2
             /\ HasSuffix(words[Len(words) - 1].text, m)
        ELSE IF Head(f) \in post_markup_break_chars
        THEN HasSuffix(last.text, m \o p)
        ELSE HasSuffix(last.text, m \o EscapedSpace \o p)

\* C10: a plain word and a markup word with no whitespace between them are
\* merged into one token, the escaped space between them if and only if the
\* plain word's adjoining character is not safe-break punctuation; separated
\* by whitespace they stay two tokens and no escape is inserted.
C10_AdjacencyMerging ==
    \A j \in 2..Len(items) :
        JustMerged(j) =>
            /\ (HasPlainWord(j - 1) /\ items[j].markup) => PlainThenMarkupOk(j)
            /\ (items[j - 1].markup /\ HasPlainWord(j)) => MarkupThenPlainOk(j)

\* A markup word has just been merged onto a plain word with the escape, and
\* (in another run) a plain word onto a markup word without it.
C10_Witness ==
    /\ Len(items) >= 3 /\ JustMerged(3)
    /\ HasPlainWord(1) /\ items[2].markup /\ HasPlainWord(3)
    /\ Len(words) = 2
    /\ \E p \in PlainTexts(1), q \in PlainTexts(1) :
          LastOf(words).text =
              p \o EscapedSpace \o Head(str_split(items[2].text)) \o q

(* --------------------------- FormatContext -------------------------- *)

\* section_chars = '=-^"~+'
section_chars == <<"=", "-", "^", "\"", "~", "+">>

FormatContext(depth, wd, bullet, colwidths) ==
    [section_depth |-> depth, width |-> wd, bullet |-> bullet,
     colwidths |-> colwidths]

Max(a, b) == IF a >= b THEN a ELSE b

indent(c, m) ==
    IF c.width = None THEN c
    ELSE [c EXCEPT !.width = Some(Max(1, Val(c.width) - m))]

in_section(c) == [c EXCEPT !.section_depth = c.section_depth + 1]

with_width(c, w) == [c EXCEPT !.width = Some(w)]

with_bullet(c, bullet) == [c EXCEPT !.bullet = Some(bullet)]

with_colwidths(c, cw) == [c EXCEPT !.colwidths = Some(cw)]

(* --------------------------- document model ------------------------- *)

\* The attributes the formatters read; an absent key is None, FALSE or empty.
NoAttrs ==
    [refuri |-> None, target |-> FALSE, anonymous |-> FALSE, colwidth |-> 0,
     names |-> <<>>, uri |-> <<>>, classes |-> <<>>, directive |-> None]

\* A docutils node: its class name, its parent's class name ("" at the
\* root), its text (astext() of a Text, rawsource of a role), its attributes
\* and its children.
Elem(kind, attrs, children) ==
    [kind |-> kind, parent |-> "", text |-> <<>>, attrs |-> attrs,
     children |-> [j \in 1..Len(children) |->
                      [children[j] EXCEPT !.parent = kind]]]

Node(kind, children) == Elem(kind, NoAttrs, children)

Text(s) ==
    [kind |-> "Text", parent |-> "", text |-> s, attrs |-> NoAttrs,
     children |-> <<>>]

(* ------------------------ generators and errors --------------------- *)

\* What draining a generator gives: the items it yields (each a plain str
\* or an inline_markup), or the exception it raises.
Ok(ls) == [ok |-> TRUE, lines |-> ls, raise |-> ""]

Raise(e) == [ok |-> FALSE, lines |-> <<>>, raise |-> e]

Line(s) == plain_str(s)

Lines(ss) == [j \in 1..Len(ss) |-> plain_str(ss[j])]

Texts(ls) == [j \in 1..Len(ls) |-> ls[j].text]

AllOk(rs) == \A j \in 1..Len(rs) : rs[j].ok

FirstError(rs) ==
    rs[CHOOSE j \in 1..Len(rs) :
          ~rs[j].ok /\ \A i \in 1..(j - 1) : rs[i].ok]

\* chain = itertools.chain.from_iterable
chain(rs) ==
    IF AllOk(rs) THEN Ok(Concat([j \in 1..Len(rs) |-> rs[j].lines]))
    ELSE FirstError(rs)

\* chain_intersperse(val, it): val between every two iterables, empty or not.
chain_intersperse(val, rs) ==
    IF AllOk(rs)
    THEN Ok(JoinWith(<<val>>, [j \in 1..Len(rs) |-> rs[j].lines]))
    ELSE FirstError(rs)

\* An operation on str applied to an inline_markup object raises TypeError.
AllStr(ls) == \A j \in 1..Len(ls) : ~ls[j].markup

Spaces(m) == [j \in 1..m |-> " "]

\* with_spaces(n, lines)
with_spaces(m, r) ==
    IF ~r.ok THEN r
    ELSE IF ~AllStr(r.lines) THEN Raise("TypeError")
    ELSE Ok([j \in 1..Len(r.lines) |->
                IF r.lines[j].text # <<>>
                THEN Line(Spaces(m) \o r.lines[j].text)
                ELSE r.lines[j]])

\* sep.join(...) over the items of a generator
join_items(sep, r) ==
    IF ~r.ok THEN r
    ELSE IF ~AllStr(r.lines) THEN Raise("TypeError")
    ELSE Ok(<< Line(JoinWith(sep, Texts(r.lines))) >>)

\* prepend_if_any(f, it)
prepend_if_any(f, r) ==
    IF ~r.ok THEN r
    ELSE IF r.lines = <<>> THEN r
    ELSE Ok(<<f>> \o r.lines)

RECURSIVE split_on_from(_, _, _, _)
split_on_from(s, sep, cur, acc) ==
    IF s = <<>> THEN Append(acc, cur)
    ELSE IF Head(s) = sep
         THEN split_on_from(Tail(s), sep, <<>>, Append(acc, cur))
         ELSE split_on_from(Tail(s), sep, Append(cur, Head(s)), acc)

\* str.split(sep) on a one-character separator: empty pieces are kept.
split_on(s, sep) == split_on_from(s, sep, <<>>, <<>>)

\* str.ljust(m)
ljust(s, m) == IF Len(s) >= m THEN s ELSE s \o Spaces(m - Len(s))

\* ch * m
Repeat(ch, m) == [j \in 1..m |-> ch]

\* section_chars[i] with Python's indexing: negative indices count from the
\* end, anything else out of range raises IndexError.
section_char(i) ==
    IF i >= 0 /\ i < Len(section_chars) THEN Ok(<<Line(<<section_chars[i + 1]>>)>>)
    ELSE IF i < 0 /\ i >= -Len(section_chars)
    THEN Ok(<<Line(<<section_chars[i + Len(section_chars) + 1]>>)>>)
    ELSE Raise("IndexError")

LowerCase == <<"a", "b", "c", "d", "e", "f", "g", "h", "i", "j", "k", "l", "m", "n", "o", "p", "q", "r", "s", "t", "u", "v", "w", "x", "y", "z">>

UpperCase == <<"A", "B", "C", "D", "E", "F", "G", "H", "I", "J", "K", "L", "M", "N", "O", "P", "Q", "R", "S", "T", "U", "V", "W", "X", "Y", "Z">>

\* str.upper()
str_upper(s) ==
    [j \in 1..Len(s) |->
        IF \E i \in 1..Len(LowerCase) : LowerCase[i] = s[j]
        THEN UpperCase[CHOOSE i \in 1..Len(LowerCase) : LowerCase[i] = s[j]]
        ELSE s[j]]

(* ----------------------------- Formatters --------------------------- *)

\* The bullet list's marker without its trailing space.
bullet_list_ctx_bare(c) == with_bullet(c, <<"-">>)

\* The context each formatter hands to its children.
bullet_list_ctx(c) == with_bullet(c, <<"-", " ">>)

enumerated_list_ctx(c) == with_bullet(c, <<"#", ".">>)

\* w = len(ctx.bullet) + 1; ctx = ctx.indent(w)
list_item_ctx(c) == indent(c, Len(Val(c.bullet)) + 1)

definition_ctx(c) == indent(c, 3)

block_quote_ctx(c) == indent(c, 3)

admonition_ctx(c) == indent(c, 3)

section_ctx(c) == in_section(c)

tgroup_ctx(c, cw) == with_colwidths(c, cw)

\* ctx.with_width(w - 2), w the entry's column width
entry_ctx(c, w) == with_width(c, w - 2)

RECURSIVE fmt(_, _)

fmt_children(node, c) ==
    [j \in 1..Len(node.children) |-> fmt(node.children[j], c)]

\* wrap_text(width, gen) on the items of a generator
wrap(wd, r) == IF ~r.ok THEN r ELSE Ok(Lines(wrap_text(wd, r.lines)))

\* " ".join(wrap_text(0, chain(fmt_children(node, ctx))))
inline_text(node, c) ==
    join_items(<<" ">>, wrap(Some(0), chain(fmt_children(node, c))))

\* inline_markup(open + "".join(chain(fmt_children(node, ctx))) + close)
delimited(node, c, open, close) ==
    LET r == join_items(<<>>, chain(fmt_children(node, c)))
    IN  IF ~r.ok THEN r
        ELSE Ok(<< inline_markup(open \o r.lines[1].text \o close) >>)

Formatters_substitution_reference(node, c) == delimited(node, c, <<"|">>, <<"|">>)

Formatters_emphasis(node, c) == delimited(node, c, <<"*">>, <<"*">>)

Formatters_strong(node, c) == delimited(node, c, <<"*", "*">>, <<"*", "*">>)

Formatters_literal(node, c) == delimited(node, c, <<"\\x60", "\\x60">>, <<"\\x60", "\\x60">>)

Formatters_title_reference(node, c) == delimited(node, c, <<"\\x60">>, <<"\\x60">>)

Formatters_bullet_list(node, c) ==
    chain_intersperse(Line(<<>>),
                      fmt_children(node, bullet_list_ctx(c)))

Formatters_enumerated_list(node, c) ==
    chain_intersperse(Line(<<>>), fmt_children(node, enumerated_list_ctx(c)))

\* (b if first else s) if c else "", with first true for the first line
\* only (enum_first).
item_prefix(first, b, s, line) ==
    IF line # <<>> THEN (IF first THEN b ELSE s) ELSE <<>>

Formatters_list_item(node, c) ==
    IF c.bullet = None THEN Raise("TypeError")
    ELSE LET w == Len(Val(c.bullet)) + 1
             b == Val(c.bullet) \o <<" ">>
             s == Spaces(w)
             r == chain_intersperse(Line(<<>>), fmt_children(node, list_item_ctx(c)))
         IN  IF ~r.ok THEN r
             ELSE IF ~AllStr(r.lines) THEN Raise("TypeError")
             ELSE Ok([j \in 1..Len(r.lines) |->
                         Line(item_prefix(j = 1, b, s, r.lines[j].text)
                              \o r.lines[j].text)])

Formatters_term(node, c) == inline_text(node, c)

Formatters_definition(node, c) ==
    chain_intersperse(Line(<<>>), fmt_children(node, c))

Formatters_definition_list_item(node, c) ==
    chain([j \in 1..Len(node.children) |->
              IF node.children[j].kind = "term"
              THEN fmt(node.children[j], c)
              ELSE IF node.children[j].kind = "definition"
              THEN with_spaces(3, fmt(node.children[j], definition_ctx(c)))
              ELSE Ok(<<>>)])

Formatters_definition_list(node, c) ==
    chain_intersperse(Line(<<>>), fmt_children(node, c))

Formatters_paragraph(node, c) == wrap(c.width, chain(fmt_children(node, c)))

title_char(c) == section_char(c.section_depth - 1)

Formatters_title(node, c) ==
    LET t  == inline_text(node, c)
        ch == title_char(c)
    IN  IF ~t.ok THEN t
        ELSE IF ~ch.ok THEN ch
        ELSE Ok(<< t.lines[1],
                   Line(Repeat(ch.lines[1].text[1], Len(t.lines[1].text))) >>)

Formatters_block_quote(node, c) ==
    with_spaces(3, chain_intersperse(Line(<<>>),
                                     fmt_children(node, block_quote_ctx(c))))

\* d = node.attributes["directive"]: its name, arguments, options (a list
\* of key and optional value) and content lines.
Formatters_directive(node, c) ==
    IF node.attrs.directive = None THEN Raise("KeyError")
    ELSE LET d == Val(node.attrs.directive)
         IN  chain(<<
               Ok(<< Line(JoinWith(<<" ">>, << <<".", ".", " ">> \o d.name \o <<":", ":">> >>
                                         \o d.arguments)) >>),
               Ok([j \in 1..Len(d.options) |->
                     Line(IF d.options[j].v = None
                          THEN <<" ", " ", " ", ":">> \o d.options[j].k \o <<":">>
                          ELSE <<" ", " ", " ", ":">> \o d.options[j].k \o <<":", " ">>
                               \o Val(d.options[j].v))]),
               prepend_if_any(Line(<<>>), with_spaces(3, Ok(Lines(d.content))))
             >>)

Formatters_section(node, c) ==
    chain_intersperse(Line(<<>>), fmt_children(node, section_ctx(c)))

Formatters_document(node, c) ==
    chain_intersperse(Line(<<>>), fmt_children(node, c))

Min(a, b) == IF a <= b THEN a ELSE b

\* "+" + "+".join(ch * w for w in colwidths) + "+"
border(cw, ch) ==
    <<"+">> \o JoinWith(<<"+">>, [j \in 1..Len(cw) |-> Repeat(ch, cw[j])]) \o <<"+">>

\* chain_intersperse("", fmt_children(entry, ctx.with_width(w - 2)))
cell_lines(entry, c, w) ==
    chain_intersperse(Line(<<>>), fmt_children(entry, entry_ctx(c, w)))

\* The cell's text justified to the whole column width.
cell_segment_unpadded(line, w) == <<" ">> \o ljust(line, w) \o <<" ">>

\* " " + (line or "").ljust(w - 2) + " "
cell_segment(line, w) == <<" ">> \o ljust(line, w - 2) \o <<" ">>

Formatters_row(node, c) ==
    IF c.colwidths = None THEN Raise("TypeError")
    ELSE LET cw == Val(c.colwidths)
             m  == Min(Len(node.children), Len(cw))
             all_lines == [j \in 1..m |-> cell_lines(node.children[j], c, cw[j])]
             height(j) == Len(all_lines[j].lines)
             rows == IF m = 0 THEN 0
                     ELSE height(CHOOSE j \in 1..m :
                                    \A i \in 1..m : height(i) <= height(j))
             cell(i, j) == IF i <= height(j) THEN all_lines[j].lines[i].text
                           ELSE <<>>
         IN  IF ~AllOk(all_lines) THEN FirstError(all_lines)
             ELSE IF \E j \in 1..m : ~AllStr(all_lines[j].lines)
             THEN Raise("AttributeError")
             ELSE Ok([i \in 1..rows |->
                        Line(<<"|">>
                             \o JoinWith(<<"|">>, [j \in 1..m |->
                                                  cell_segment(cell(i, j), cw[j])])
                             \o <<"|">>)])

Formatters_tbody(node, c) ==
    IF c.colwidths = None THEN Raise("TypeError")
    ELSE chain_intersperse(Line(border(Val(c.colwidths), "-")),
                           fmt_children(node, c))

Formatters_thead(node, c) == Formatters_tbody(node, c)

IsColspec(node) == node.kind = "colspec"

Formatters_tgroup(node, c) ==
    LET specs == SelectSeq(node.children, IsColspec)
        cw    == [j \in 1..Len(specs) |-> specs[j].attrs.colwidth]
        c2    == tgroup_ctx(c, cw)
        sep   == Line(border(cw, "-"))
    IN  chain(<< Ok(<<sep>>) >> \o
              [j \in 1..Len(node.children) |->
                  IF node.children[j].kind = "thead"
                  THEN chain(<< fmt(node.children[j], c2),
                                Ok(<< Line(border(cw, "=")) >>) >>)
                  ELSE IF node.children[j].kind = "tbody"
                  THEN chain(<< fmt(node.children[j], c2), Ok(<<sep>>) >>)
                  ELSE Ok(<<>>)])

Formatters_table(node, c) ==
    chain_intersperse(Line(<<>>), fmt_children(node, c))

Formatters_Text(node, c) == Ok(<< Line(node.text) >>)

RefNameChars ==
    {"-", "_", ".", ":", "+"}
    \cup { LowerCase[j] : j \in 1..Len(LowerCase) }
    \cup { UpperCase[j] : j \in 1..Len(UpperCase) }

RefNamePunct == {"-", "_", ".", ":", "+"}

\* re.match("^[-_.:+a-zA-Z]+$", title): $ also matches before a final newline.
re_match_ref_name(t) ==
    LET core == IF t # <<>> /\ t[Len(t)] = "\n" THEN SubSeq(t, 1, Len(t) - 1)
                ELSE t
    IN  core # <<>> /\ \A j \in 1..Len(core) : core[j] \in RefNameChars

\* re.search("[-_.:+][-_.:+]", title)
re_search_adjacent_punct(t) ==
    \E j \in 1..(Len(t) - 1) : t[j] \in RefNamePunct /\ t[j + 1] \in RefNamePunct

\* The standalone-hyperlink test taken on the URI without its scheme.
is_standalone_any_scheme(uri, t) ==
    \/ uri = t
    \/ \E j \in 1..Len(uri) :
          uri[j] = ":" /\ SubSeq(uri, j + 1, Len(uri)) \in {t, <<"/", "/">> \o t}

\* uri == title or uri == "mailto:" + title
is_standalone(uri, t) == uri = t \/ uri = <<"m", "a", "i", "l", "t", "o", ":">> \o t

Formatters_reference(node, c) ==
    LET t == inline_text(node, c)
        has_uri == node.attrs.refuri # None
        anon == IF has_uri THEN ~node.attrs.target ELSE node.attrs.anonymous
        suffix == IF anon THEN <<"_", "_">> ELSE <<"_">>
    IN  IF ~t.ok THEN t
        ELSE LET ttl == t.lines[1].text IN
             IF has_uri
             THEN IF is_standalone(Val(node.attrs.refuri), ttl)
                  THEN Ok(<< inline_markup(ttl) >>)
                  ELSE Ok(<< inline_markup(<<"\\x60">> \o ttl \o <<" ", "<">>
                                           \o Val(node.attrs.refuri)
                                           \o <<">", "\\x60">> \o suffix) >>)
             ELSE LET is_single_word ==
                          \/ re_match_ref_name(ttl)
                             /\ ~re_search_adjacent_punct(ttl)
                          \/ Len(node.children) = 1
                             /\ node.children[1].kind = "substitution_reference"
                  IN  Ok(<< inline_markup((IF is_single_word THEN ttl
                                           ELSE <<"\\x60">> \o ttl \o <<"\\x60">>)
                                          \o suffix) >>)

Formatters_role(node, c) == Ok(<< inline_markup(node.text) >>)

Formatters_inline(node, c) == chain(fmt_children(node, c))

Formatters_target(node, c) ==
    LET body == IF node.attrs.refuri # None
                THEN <<" ">> \o Val(node.attrs.refuri) ELSE <<>>
    IN  IF node.parent \in {"document", "section"}
        THEN IF node.attrs.names = <<>> THEN Raise("IndexError")
             ELSE Ok(<< Line(<<".", ".", " ", "_">> \o node.attrs.names[1] \o <<":">> \o body) >>)
        ELSE Ok(<<>>)

Formatters_comment(node, c) ==
    LET t == join_items(<<"\n">>, chain(fmt_children(node, c)))
    IN  IF ~t.ok THEN t
        ELSE chain(<< Ok(<< Line(<<".", ".">>) >>),
                      with_spaces(3, Ok(Lines(split_on(t.lines[1].text, "\n")))) >>)

\* note, warning and hint differ in the directive name only.
admonition(name, node, c) ==
    chain(<< Ok(<< Line(<<".", ".", " ">> \o name \o <<":", ":">>), Line(<<>>) >>),
             with_spaces(3, chain_intersperse(Line(<<>>),
                                              fmt_children(node, admonition_ctx(c)))) >>)

Formatters_note(node, c) == admonition(<<"n", "o", "t", "e">>, node, c)

Formatters_warning(node, c) == admonition(<<"w", "a", "r", "n", "i", "n", "g">>, node, c)

Formatters_hint(node, c) == admonition(<<"h", "i", "n", "t">>, node, c)

Formatters_image(node, c) == Ok(<< Line(<<".", ".", " ", "i", "m", "a", "g", "e", ":", ":", " ">> \o node.attrs.uri) >>)

IsLang(cls) == cls # <<"c", "o", "d", "e">>

Formatters_literal_block(node, c) ==
    LET lang == SelectSeq(node.attrs.classes, IsLang)
        t == join_items(<<>>, chain(fmt_children(node, c)))
    IN  IF ~t.ok THEN t
        ELSE chain(<< Ok(<< Line(<<".", ".", " ", "c", "o", "d", "e", ":", ":">> \o (IF lang # <<>>
                                                  THEN <<" ">> \o lang[1]
                                                  ELSE <<>>)),
                            Line(<<>>) >>),
                      with_spaces(3, Ok(Lines(split_on(t.lines[1].text, "\n")))) >>)

\* The escape character, written as its Python escape (as is the backquote,
\* "\\x60": TLA+ strings hold neither).
Esc == "\\x1b"

\* type(node).__name__ of the node classes that have no formatter.
type_name(kind) ==
    CASE kind = "entry" -> <<"e", "n", "t", "r", "y">>
      [] kind = "colspec" -> <<"c", "o", "l", "s", "p", "e", "c">>
      [] kind = "line_block" -> <<"l", "i", "n", "e", "_", "b", "l", "o", "c", "k">>
      [] kind = "transition" -> <<"t", "r", "a", "n", "s", "i", "t", "i", "o", "n">>

\* The fallback raising instead of rendering a placeholder.
unmapped_raises(node, c) == Raise("AttributeError")

\* lambda _, __: ["\x1b[35m{}\x1b[m".format(type(node).__name__.upper())]
unmapped(node, c) ==
    Ok(<< Line(<<Esc>> \o <<"[", "3", "5", "m">> \o str_upper(type_name(node.kind))
               \o <<Esc>> \o <<"[", "m">>) >>)

\* getattr(Formatters, type(node).__name__, <fallback>)(node, ctx)
fmt(node, c) ==
    CASE node.kind = "substitution_reference" -> Formatters_substitution_reference(node, c)
      [] node.kind = "emphasis" -> Formatters_emphasis(node, c)
      [] node.kind = "strong" -> Formatters_strong(node, c)
      [] node.kind = "literal" -> Formatters_literal(node, c)
      [] node.kind = "title_reference" -> Formatters_title_reference(node, c)
      [] node.kind = "bullet_list" -> Formatters_bullet_list(node, c)
      [] node.kind = "enumerated_list" -> Formatters_enumerated_list(node, c)
      [] node.kind = "list_item" -> Formatters_list_item(node, c)
      [] node.kind = "term" -> Formatters_term(node, c)
      [] node.kind = "definition" -> Formatters_definition(node, c)
      [] node.kind = "definition_list_item" -> Formatters_definition_list_item(node, c)
      [] node.kind = "definition_list" -> Formatters_definition_list(node, c)
      [] node.kind = "paragraph" -> Formatters_paragraph(node, c)
      [] node.kind = "title" -> Formatters_title(node, c)
      [] node.kind = "block_quote" -> Formatters_block_quote(node, c)
      [] node.kind = "directive" -> Formatters_directive(node, c)
      [] node.kind = "section" -> Formatters_section(node, c)
      [] node.kind = "document" -> Formatters_document(node, c)
      [] node.kind = "row" -> Formatters_row(node, c)
      [] node.kind = "tbody" -> Formatters_tbody(node, c)
      [] node.kind = "thead" -> Formatters_thead(node, c)
      [] node.kind = "tgroup" -> Formatters_tgroup(node, c)
      [] node.kind = "table" -> Formatters_table(node, c)
      [] node.kind = "Text" -> Formatters_Text(node, c)
      [] node.kind = "reference" -> Formatters_reference(node, c)
      [] node.kind = "role" -> Formatters_role(node, c)
      [] node.kind = "inline" -> Formatters_inline(node, c)
      [] node.kind = "target" -> Formatters_target(node, c)
      [] node.kind = "comment" -> Formatters_comment(node, c)
      [] node.kind = "note" -> Formatters_note(node, c)
      [] node.kind = "warning" -> Formatters_warning(node, c)
      [] node.kind = "hint" -> Formatters_hint(node, c)
      [] node.kind = "image" -> Formatters_image(node, c)
      [] node.kind = "literal_block" -> Formatters_literal_block(node, c)
      [] OTHER -> unmapped(node, c)

\* format_node(width, node): "\n".join(fmt(node, FormatContext(0, width, None, None)))
format_node(wd, node) ==
    join_items(<<"\n">>, fmt(node, FormatContext(0, wd, None, None)))

RECURSIVE preproc(_)
IsKept(node) == node.kind # "system_message"

\* preproc(node): drop system_message children, recurse, and give every
\* reference directly followed by a target the "target" attribute.
preproc(node) ==
    LET kept == SelectSeq(node.children, IsKept)
        done == [j \in 1..Len(kept) |-> preproc(kept[j])]
    IN  [node EXCEPT !.children =
            [j \in 1..Len(done) |->
                IF done[j].kind = "reference" /\ j < Len(done)
                   /\ done[j + 1].kind = "target"
                THEN [done[j] EXCEPT !.attrs.target = TRUE]
                ELSE done[j]]]

(* ------------- the context along a path down the document ----------- *)

\* Deepest section nesting followed.
MaxDepth == 7

\* Most columns of a table group, and the widest declared column.
MaxCols == 2

MaxColWidth == 4

ColWidthSeqs == UNION { [1..m -> 1..MaxColWidth] : m \in 1..MaxCols }

\* format_node is given None or a positive width (main, run_test).
InitialWidths == {None} \cup { Some(w) : w \in 1..MaxWidth }

TitleTexts == { <<"E", "x", "a", "m", "p", "l", "e">>, <<"a", " ", "b">> }

TitleNode(t) == Node("title", << Text(t) >>)

\* format_node's context at the root; then one action per formatter that
\* changes the context for its children, and the title rule applied at the
\* context reached.
InitCtx ==
    /\ pc = "descend"
    /\ width \in InitialWidths
    /\ ctx = FormatContext(0, width, None, None)
    /\ doc = None /\ output = None
    /\ items = <<>> /\ raw_words = <<>> /\ words = <<>> /\ k = 1
    /\ tokens = <<>> /\ buf = <<>> /\ n = 0 /\ lines = <<>>

\* Formatters.section
EnterSection ==
    /\ pc = "descend"
    /\ ctx.section_depth < MaxDepth
    /\ ctx' = section_ctx(ctx)
    /\ output' = None /\ doc' = None
    /\ UNCHANGED <<pc, width, items, raw_words, words, k, tokens, buf, n, lines>>

\* Formatters.bullet_list
EnterBulletList ==
    /\ pc = "descend"
    /\ ctx' = bullet_list_ctx(ctx)
    /\ output' = None /\ doc' = None
    /\ UNCHANGED <<pc, width, items, raw_words, words, k, tokens, buf, n, lines>>

\* Formatters.enumerated_list
EnterEnumeratedList ==
    /\ pc = "descend"
    /\ ctx' = enumerated_list_ctx(ctx)
    /\ output' = None /\ doc' = None
    /\ UNCHANGED <<pc, width, items, raw_words, words, k, tokens, buf, n, lines>>

\* Formatters.list_item
EnterListItem ==
    /\ pc = "descend"
    /\ ctx.bullet # None
    /\ ctx' = list_item_ctx(ctx)
    /\ output' = None /\ doc' = None
    /\ UNCHANGED <<pc, width, items, raw_words, words, k, tokens, buf, n, lines>>

\* Formatters.definition_list_item
EnterDefinition ==
    /\ pc = "descend"
    /\ ctx' = definition_ctx(ctx)
    /\ output' = None /\ doc' = None
    /\ UNCHANGED <<pc, width, items, raw_words, words, k, tokens, buf, n, lines>>

\* Formatters.block_quote
EnterBlockQuote ==
    /\ pc = "descend"
    /\ ctx' = block_quote_ctx(ctx)
    /\ output' = None /\ doc' = None
    /\ UNCHANGED <<pc, width, items, raw_words, words, k, tokens, buf, n, lines>>

\* Formatters.note, warning, hint
EnterAdmonition ==
    /\ pc = "descend"
    /\ ctx' = admonition_ctx(ctx)
    /\ output' = None /\ doc' = None
    /\ UNCHANGED <<pc, width, items, raw_words, words, k, tokens, buf, n, lines>>

\* Formatters.tgroup
EnterTgroup ==
    /\ pc = "descend"
    /\ \E cw \in ColWidthSeqs : ctx' = tgroup_ctx(ctx, cw)
    /\ output' = None /\ doc' = None
    /\ UNCHANGED <<pc, width, items, raw_words, words, k, tokens, buf, n, lines>>

\* Formatters.row, for one of its entries
EnterEntry ==
    /\ pc = "descend"
    /\ ctx.colwidths # None
    /\ \E j \in 1..Len(Val(ctx.colwidths)) :
          ctx' = entry_ctx(ctx, Val(ctx.colwidths)[j])
    /\ output' = None /\ doc' = None
    /\ UNCHANGED <<pc, width, items, raw_words, words, k, tokens, buf, n, lines>>

\* Formatters.title at the context reached
RenderTitle ==
    /\ pc = "descend"
    /\ \E t \in TitleTexts :
          /\ doc' = Some(TitleNode(t))
          /\ output' = Some(fmt(TitleNode(t), ctx))
    /\ UNCHANGED <<pc, width, items, raw_words, words, k, tokens, buf, n,
                   lines, ctx>>

NextCtx ==
    \/ EnterSection
    \/ EnterBulletList
    \/ EnterEnumeratedList
    \/ EnterListItem
    \/ EnterDefinition
    \/ EnterBlockQuote
    \/ EnterAdmonition
    \/ EnterTgroup
    \/ EnterEntry
    \/ RenderTitle

SpecCtx == InitCtx /\ [][NextCtx]_vars

(* -------------------- claims about the context ---------------------- *)

\* The title just rendered, and what came out.
TitleRendered == pc = "descend" /\ output # None

TitleText == Val(doc).children[1].text

\* C5: a title rendered inside d >= 1 nested sections comes out as exactly
\* two lines, the title text and an underline of the same length made of
\* the character the depth selects cyclically from =-^"~+, and rendering
\* fails at no depth.
C5_TitleUnderlineCyclic ==
    (TitleRendered /\ ctx.section_depth >= 1) =>
        /\ Val(output).ok
        /\ Texts(Val(output).lines) =
              << TitleText,
                 Repeat(section_chars[((ctx.section_depth - 1)
                                       % Len(section_chars)) + 1],
                        Len(TitleText)) >>

\* C9: along every path the context's width is None or an integer >= 1.
C9_WidthPositive ==
    pc = "descend" => (ctx.width = None \/ Val(ctx.width) >= 1)

(* ------------------ parse, preproc, format_node --------------------- *)

\* main's default for --width.
DefaultWidth == 72

\* Most children of a list item.
MaxChildren == 2

Para(s) == Node("paragraph", << Text(s) >>)

Seqs(S, m) == UNION { [1..j -> S] : j \in 0..m }

UnmappedKinds == {"entry", "colspec", "line_block", "transition"}

ListKinds == {"bullet_list", "enumerated_list"}

\* What a list item may hold: paragraphs, a hyperlink target (it renders
\* nothing inside a list item), a nested list, a block quote.
ItemChildren ==
    { Para(<<"a">>), Para(<<"a", " ", "a">>),
      Elem("target", [NoAttrs EXCEPT !.names = << <<"t">> >>], <<>>),
      Node("bullet_list", << Node("list_item", << Para(<<"a">>) >>) >>),
      Node("block_quote", << Para(<<"a">>) >>) }

OneItemList(kind, chs) == Node(kind, << Node("list_item", chs) >>)

ListDocs ==
    { OneItemList(kind, chs) : kind \in ListKinds,
                               chs \in Seqs(ItemChildren, MaxChildren) }

ItemTexts == { <<"i", "t", "e", "m", " ", "o", "n", "e">>, <<"i", "t", "e", "m", " ", "t", "w", "o">> }

TwoItemList(kind, s, t) ==
    Node(kind, << Node("list_item", << Para(s) >>),
                  Node("list_item", << Para(t) >>) >>)

TwoItemDocs ==
    { TwoItemList(kind, s, t) : kind \in ListKinds, s \in ItemTexts,
                                t \in ItemTexts }

RefTitles == { <<"e", "x", "a", "m", "p", "l", "e">>, <<"a", "n", " ", "e", "x", "a", "m", "p", "l", "e">> }

RefUris ==
    {None} \cup { Some(u) : u \in { <<"h", "t", "t", "p", ":", "/", "/", "e", "x", "a", "m", "p", "l", "e">>, <<"e", "x", "a", "m", "p", "l", "e">>,
                                    <<"m", "a", "i", "l", "t", "o", ":", "e", "x", "a", "m", "p", "l", "e">> } }

Reference(t, uri, anon) ==
    Elem("reference", [NoAttrs EXCEPT !.refuri = uri, !.anonymous = anon],
         << Text(t) >>)

TargetFor(t, uri) ==
    Elem("target", [NoAttrs EXCEPT !.refuri = uri, !.names = << t >>], <<>>)

\* A paragraph holding a reference, followed or not by the target the
\* parser puts after a named hyperlink reference.
RefDoc(t, uri, anon, followed) ==
    Node("paragraph",
         << Reference(t, uri, anon) >>
         \o (IF followed THEN << TargetFor(t, uri) >> ELSE <<>>))

RefDocs ==
    { RefDoc(t, uri, anon, followed) :
        t \in RefTitles, uri \in RefUris, anon \in BOOLEAN,
        followed \in BOOLEAN }

\* A reference without a URI, its child a text or a substitution reference.
NamedReference(child, anon) ==
    Elem("reference", [NoAttrs EXCEPT !.anonymous = anon], << child >>)

\* The titles tell the reference names apart: a digit, one and two
\* punctuation characters inside, punctuation alone.
NamedRefDocs ==
    { Node("paragraph", << NamedReference(child, anon) >>) :
        child \in { Text(t) : t \in { <<"a", "1">>, <<"a", "-", "b">>,
                                      <<"a", "-", "-", "b">>,
                                      <<"a", ".", "b", ":", "c">>, <<"-">> } }
                  \cup { Node("substitution_reference", << Text(t) >>) :
                           t \in { <<"a", " ", "b">>, <<"a", "1">> } },
        anon \in BOOLEAN }

Unmapped(kind) == Node(kind, << Para(<<"a">>) >>)

\* A node without a formatter: alone, and inside a document, a paragraph,
\* an emphasis, a list item and a block quote.
UnmappedDocs ==
    UNION { { Node(kind, <<>>),
              Unmapped(kind),
              Node("document", << Para(<<"a">>), Unmapped(kind) >>),
              Node("paragraph", << Text(<<"a", " ">>), Unmapped(kind) >>),
              Node("paragraph", << Node("emphasis", << Unmapped(kind) >>) >>),
              OneItemList("bullet_list", << Unmapped(kind), Para(<<"a">>) >>),
              Node("block_quote", << Unmapped(kind) >>) }
            : kind \in UnmappedKinds }

Colspec(w) == Elem("colspec", [NoAttrs EXCEPT !.colwidth = w], <<>>)

EntryKinds ==
    { Node("entry", <<>>), Node("entry", << Para(<<"a">>) >>),
      Node("entry", << Para(<<"a", " ", "a">>) >>), Node("entry", << Para(<<"a", "a", "a">>) >>) }

Rows == { Node("row", es) : es \in Seqs(EntryKinds, MaxCols) }

Tgroup(cw, head, row) ==
    Node("tgroup",
         [j \in 1..Len(cw) |-> Colspec(cw[j])]
         \o (IF head THEN << Node("thead", << row >>) >> ELSE <<>>)
         \o << Node("tbody", << row >>) >>)

TableDocs ==
    { Tgroup(cw, head, row) : cw \in ColWidthSeqs, head \in BOOLEAN,
                              row \in Rows }

FmtWidths == InitialWidths \cup { Some(DefaultWidth) }

\* A table group's cells are rendered at their columns' widths whatever
\* width format_node is given, so tables are drawn with two widths only.
FmtInputs ==
    ((ListDocs \cup TwoItemDocs \cup RefDocs \cup NamedRefDocs
      \cup UnmappedDocs) \X FmtWidths)
    \cup (TableDocs \X {None, Some(DefaultWidth)})

InitFmt ==
    /\ pc = "parsed"
    /\ \E in \in FmtInputs : doc = in[1] /\ width = in[2]
    /\ output = None
    /\ ctx = FormatContext(0, width, None, None)
    /\ items = <<>> /\ raw_words = <<>> /\ words = <<>> /\ k = 1
    /\ tokens = <<>> /\ buf = <<>> /\ n = 0 /\ lines = <<>>

\* parse_string: preproc(doc) on the tree the parser built
Preproc ==
    /\ pc = "parsed"
    /\ doc' = preproc(doc)
    /\ pc' = "preprocessed"
    /\ UNCHANGED <<width, items, raw_words, words, k, tokens, buf, n, lines,
                   ctx, output>>

\* output = format_node(args.width, doc)
FormatNode ==
    /\ pc = "preprocessed"
    /\ output' = Some(format_node(width, doc))
    /\ pc' = "formatted"
    /\ UNCHANGED <<width, items, raw_words, words, k, tokens, buf, n, lines,
                   ctx, doc>>

NextFmt == Preproc \/ FormatNode

SpecFmt == InitFmt /\ [][NextFmt]_vars

(* ------------------ claims about the rendered text ------------------ *)

Formatted == pc = "formatted"

\* The text format_node returned, and its lines.
OutText == Val(output).lines[1].text

OutLines == split_on(OutText, "\n")

HasPrefix(s, t) == Len(t) <= Len(s) /\ SubSeq(s, 1, Len(t)) = t

Contains(s, t) == \E i \in 1..(Len(s) + 1) : HasPrefix(SubSeq(s, i, Len(s)), t)

IsBoundary(ch) == ch \in {"|", "+"}

IsTable == doc.kind = "tgroup"

\* The declared widths c_1..c_n of the table group.
Declared ==
    LET specs == SelectSeq(doc.children, IsColspec)
    IN  [j \in 1..Len(specs) |-> specs[j].attrs.colwidth]

IsRowGroup(node) == node.kind \in {"thead", "tbody"}

TableRows ==
    Concat([j \in 1..Len(SelectSeq(doc.children, IsRowGroup)) |->
               SelectSeq(doc.children, IsRowGroup)[j].children])

RECURSIVE Offset(_, _)
\* Where the boundary after column j stands in a well-formed line.
Offset(cw, j) == IF j = 0 THEN 1 ELSE Offset(cw, j - 1) + cw[j] + 1

GeometryOk(line, cw) ==
    /\ Len(line) = Offset(cw, Len(cw))
    /\ { p \in 1..Len(line) : IsBoundary(line[p]) }
          = { Offset(cw, j) : j \in 0..Len(cw) }

RowLines == SelectSeq(OutLines, LAMBDA l : HasPrefix(l, <<"|">>))

\* Every row has an entry for each column, each column is at least 2 wide
\* and no line of a cell is longer than its column's width less 2.
FitsDeclared ==
    LET c == tgroup_ctx(FormatContext(0, width, None, None), Declared)
    IN  /\ \A i \in 1..Len(Declared) : Declared[i] >= 2
        /\ \A j \in 1..Len(TableRows) :
              /\ Len(TableRows[j].children) >= Len(Declared)
              /\ \A i \in 1..Len(Declared) :
                    LET r == cell_lines(TableRows[j].children[i], c, Declared[i])
                    IN  /\ r.ok
                        /\ \A m \in 1..Len(r.lines) :
                              Len(r.lines[m].text) <= Declared[i] - 2

\* C3 as stated: whatever the rows and the cell contents, every line
\* rendered for a row of a table group with declared widths c_1..c_n has
\* exactly n+1 boundary characters, the i-th segment being c_i wide.
C3_TableGeometryAnyContent ==
    (Formatted /\ IsTable) =>
        /\ Val(output).ok
        /\ \A j \in 1..Len(RowLines) : GeometryOk(RowLines[j], Declared)

\* C3, amended: the geometry holds for the table groups whose rows have an
\* entry for each of the n columns, whose widths c_i are at least 2 and
\* whose cell lines are at most c_i - 2 long.
C3_TableGeometry ==
    (Formatted /\ IsTable /\ FitsDeclared) =>
        /\ Val(output).ok
        /\ \A j \in 1..Len(RowLines) : GeometryOk(RowLines[j], Declared)

C3_Witness ==
    /\ Formatted /\ IsTable /\ FitsDeclared
    /\ Len(Declared) = 2
    /\ \E j \in 1..Len(doc.children) : doc.children[j].kind = "thead"
    /\ Len(RowLines) >= 4
    /\ \E j \in 1..Len(RowLines) : Contains(RowLines[j], <<"a">>)

IsOneItemList ==
    /\ doc.kind \in ListKinds
    /\ Len(doc.children) = 1
    /\ doc.children[1].kind = "list_item"

\* The bullet the list gives its item.
ActiveBullet == IF doc.kind = "bullet_list" THEN <<"-", " ">> ELSE <<"#", ".">>

NonEmpty == { j \in 1..Len(OutLines) : OutLines[j] # <<>> }

IsFirstNonEmpty(j) == j \in NonEmpty /\ \A i \in NonEmpty : j <= i

\* C4: of the lines of a list item rendered with bullet b, the first
\* non-empty one starts with b and a space, and every later non-empty one
\* starts with len(b)+1 spaces.
C4_ListIndentation ==
    (Formatted /\ IsOneItemList) =>
        /\ Val(output).ok
        /\ \A j \in NonEmpty :
              IF IsFirstNonEmpty(j)
              THEN HasPrefix(OutLines[j], ActiveBullet \o <<" ">>)
              ELSE HasPrefix(OutLines[j], Spaces(Len(ActiveBullet) + 1))

IsTwoItems ==
    doc = preproc(TwoItemList("bullet_list", <<"i", "t", "e", "m", " ", "o", "n", "e">>, <<"i", "t", "e", "m", " ", "t", "w", "o">>))

\* The lines are not wrapped: "-  item one" is 11 characters long.
Unwrapped == width = None \/ Val(width) >= 11

\* C6 as stated: a bullet list of the items "item one" and "item two"
\* renders as "- item one", an empty line, "- item two".
C6_BulletListOneSpace ==
    (Formatted /\ IsTwoItems /\ Unwrapped) =>
        /\ Val(output).ok
        /\ OutLines = << <<"-", " ", "i", "t", "e", "m", " ", "o", "n", "e">>, <<>>, <<"-", " ", "i", "t", "e", "m", " ", "t", "w", "o">> >>

\* C6, amended: the list renders as three lines, "-  item one", an empty
\* line and "-  item two": the bullet "- ", one space, the item's text.
C6_BulletList ==
    (Formatted /\ IsTwoItems /\ Unwrapped) =>
        /\ Val(output).ok
        /\ OutLines = << <<"-", " ", " ", "i", "t", "e", "m", " ", "o", "n", "e">>, <<>>, <<"-", " ", " ", "i", "t", "e", "m", " ", "t", "w", "o">> >>

C6_Witness == Formatted /\ IsTwoItems /\ width = Some(DefaultWidth)

IsRefDoc ==
    /\ doc.kind = "paragraph"
    /\ doc.children # <<>>
    /\ doc.children[1].kind = "reference"

RefTitle == doc.children[1].children[1].text

RefUri == doc.children[1].attrs.refuri

RefFollowed == Len(doc.children) > 1 /\ doc.children[2].kind = "target"

Quoted(t, uri) == <<"\\x60">> \o t \o <<" ", "<">> \o uri \o <<">", "\\x60">>

\* C7 as stated: the reference with title "example" and URI
\* "http://example" renders as the bare "example_".
C7_StandaloneShorthand ==
    (Formatted /\ IsRefDoc /\ RefTitle = <<"e", "x", "a", "m", "p", "l", "e">>
       /\ RefUri = Some(<<"h", "t", "t", "p", ":", "/", "/", "e", "x", "a", "m", "p", "l", "e">>)) =>
        /\ Val(output).ok
        /\ OutText = <<"e", "x", "a", "m", "p", "l", "e", "_">>

\* C7, amended: a reference with a URI renders as the bare title, with no
\* underscore, when the URI is the title or "mailto:" and the title; any
\* other, "http://example" for the title "example" among them, renders
\* backtick-quoted with the URI in angle brackets, followed by "_" when a
\* target follows the reference and by "__" when none does. Wrapping may
\* break the text at its spaces.
C7_ReferenceWithUri ==
    (Formatted /\ IsRefDoc /\ RefUri # None) =>
        /\ Val(output).ok
        /\ JoinWith(<<" ">>, OutLines) =
              IF Val(RefUri) \in { RefTitle, <<"m", "a", "i", "l", "t", "o", ":">> \o RefTitle }
              THEN RefTitle
              ELSE Quoted(RefTitle, Val(RefUri))
                   \o (IF RefFollowed THEN <<"_">> ELSE <<"_", "_">>)

C7_Witness ==
    /\ Formatted /\ IsRefDoc
    /\ RefTitle = <<"e", "x", "a", "m", "p", "l", "e">> /\ RefUri = Some(<<"h", "t", "t", "p", ":", "/", "/", "e", "x", "a", "m", "p", "l", "e">>)
    /\ RefFollowed
    /\ width = Some(DefaultWidth)
    /\ OutText = Quoted(<<"e", "x", "a", "m", "p", "l", "e">>, <<"h", "t", "t", "p", ":", "/", "/", "e", "x", "a", "m", "p", "l", "e">>) \o <<"_">>

\* What stands for a node without a formatter: its kind's name in capitals
\* between the escape sequences for magenta and for reset.
Placeholder(kind) ==
    << Esc >> \o <<"[", "3", "5", "m">>
    \o (CASE kind = "entry" -> <<"E", "N", "T", "R", "Y">>
          [] kind = "colspec" -> <<"C", "O", "L", "S", "P", "E", "C">>
          [] kind = "line_block" -> <<"L", "I", "N", "E", "_", "B", "L", "O", "C", "K">>
          [] kind = "transition" -> <<"T", "R", "A", "N", "S", "I", "T", "I", "O", "N">>)
    \o << Esc >> \o <<"[", "m">>

Holds(kind) ==
    doc \in { preproc(d) :
                d \in { Node("document", << Para(<<"a">>), Unmapped(kind) >>),
                        Node("paragraph", << Text(<<"a", " ">>), Unmapped(kind) >>),
                        Node("paragraph",
                             << Node("emphasis", << Unmapped(kind) >>) >>),
                        OneItemList("bullet_list",
                                    << Unmapped(kind), Para(<<"a">>) >>),
                        Node("block_quote", << Unmapped(kind) >>) } }

\* C8: formatting a node of a kind without a formatter raises nothing and
\* gives one line, the placeholder naming the kind; formatting a tree that
\* holds such a node completes, the placeholder in its text.
C8_UnmappedPlaceholder ==
    Formatted =>
        \A kind \in UnmappedKinds :
            /\ doc.kind = kind =>
                  Val(output).ok /\ OutLines = << Placeholder(kind) >>
            /\ Holds(kind) =>
                  Val(output).ok /\ Contains(OutText, Placeholder(kind))

C8_Witness ==
    /\ Formatted
    /\ Holds("line_block")
    /\ doc.kind = "document"
    /\ Val(output).ok

(* ------------------- claims about named references ------------------ *)

Digits == { "0", "1", "2", "3", "4", "5", "6", "7", "8", "9" }

Letters ==
    { LowerCase[j] : j \in 1..Len(LowerCase) }
    \cup { UpperCase[j] : j \in 1..Len(UpperCase) }

NamePunct == { "-", "_", ".", ":", "+" }

RefChild == doc.children[1].children[1]

IsSubstitution ==
    Len(doc.children[1].children) = 1 /\ RefChild.kind = "substitution_reference"

\* The title of the reference: its text, or the text of its substitution
\* reference between bars.
NamedTitle ==
    IF RefChild.kind = "substitution_reference"
    THEN <<"|">> \o RefChild.children[1].text \o <<"|">>
    ELSE RefChild.text

\* Letters, digits and -_.:+ only, no two of the punctuation adjacent.
IsRefName(t) ==
    /\ \A j \in 1..Len(t) : t[j] \in Letters \cup Digits \cup NamePunct
    /\ \A j \in 1..(Len(t) - 1) : ~(t[j] \in NamePunct /\ t[j + 1] \in NamePunct)

NameSuffix == IF doc.children[1].attrs.anonymous THEN <<"_", "_">> ELSE <<"_">>

\* C11: a reference without a URI renders bare, the title and the suffix,
\* exactly when the title is made of letters, digits and -_.:+ with no two
\* of the punctuation adjacent or its only child is a substitution
\* reference, and backtick-quoted before the suffix otherwise; the suffix
\* is "__" for an anonymous reference and "_" for any other.
C11_ReferenceWithoutUri ==
    (Formatted /\ IsRefDoc /\ RefUri = None) =>
        /\ Val(output).ok
        /\ JoinWith(<<" ">>, OutLines) =
              (IF IsRefName(NamedTitle) \/ IsSubstitution
               THEN NamedTitle
               ELSE <<"\\x60">> \o NamedTitle \o <<"\\x60">>)
              \o NameSuffix

(* ---------------- claims about the content wrap_text keeps ---------- *)

IsSpace(ch) == ch \in space_chars

NonSpace(s) == SelectSeq(s, LAMBDA ch : ~IsSpace(ch))

RECURSIVE RemoveEscapes(_)
\* s without the escaped spaces, a backslash and the space after it.
RemoveEscapes(s) ==
    IF s = <<>> THEN <<>>
    ELSE IF Len(s) >= 2 /\ SubSeq(s, 1, 2) = EscapedSpace
         THEN RemoveEscapes(SubSeq(s, 3, Len(s)))
         ELSE << Head(s) >> \o RemoveEscapes(Tail(s))

\* What a line holds besides whitespace and escaped spaces.
Content(line) == NonSpace(RemoveEscapes(line))

\* The words of the fragments in their order.
InputWords == Concat([j \in 1..Len(items) |-> str_split(items[j].text)])

\* The characters of the fragments that are not whitespace, in their order.
InputContent == Concat([j \in 1..Len(items) |-> NonSpace(items[j].text)])

\* The content of lines 1..j, one after the other.
ContentUpTo(j) == Concat([i \in 1..j |-> Content(lines[i])])

\* How much of the content the first j words make.
WordsUpTo(j) == Concat(SubSeq(InputWords, 1, j))

\* C12: at any width, None and 0 included, the lines wrap_text yields hold,
\* whitespace and the escaped spaces it inserted aside, exactly the
\* characters of the fragments that are not whitespace, in their order, and
\* every line ends where a word of the fragments ends: no word is dropped,
\* duplicated, reordered or split across lines.
C12_ContentPreserved ==
    pc = "done" =>
        /\ ContentUpTo(Len(lines)) = InputContent
        /\ \A j \in 1..Len(lines) :
              \E m \in 0..Len(InputWords) : ContentUpTo(j) = WordsUpTo(m)

\* A finished run that put an escaped space into a token and yielded
\* several lines from fragments of several words.
C12_Witness ==
    /\ pc = "done"
    /\ Len(lines) >= 2
    /\ \E j \in 1..Len(lines) : RemoveEscapes(lines[j]) # lines[j]
    /\ \E j \in 1..Len(items) : Len(str_split(items[j].text)) >= 2
    /\ width \in { Some(0), Some(3) }

=============================================================================
